---- MODULE Spec2Model ----
(***************************************************************************)
(* SmartIR light platform (custom_components/smartir/light.py).            *)
(*                                                                         *)
(* One SmartIRLight entity: its assumed state (_power, _on_by_remote,      *)
(* _brightness, _colortemp, _state), the asyncio lock that serialises the  *)
(* IR bursts, the power sensor handler and the power sensor check timer.   *)
(* Coroutines are modelled at the granularity of asyncio: everything       *)
(* between two suspension points is one atomic step.  The suspension       *)
(* points are the wait for a held lock and every await of                  *)
(* controller.send.                                                        *)
(*                                                                         *)
(* Python None is written None for string valued fields and NoValue for    *)
(* number valued fields.  List indices are 0-based as in the source.       *)
(***************************************************************************)
EXTENDS Integers, Sequences, FiniteSets, TLC

\* ------------------------------------------------------------------ bounds
NumCallers == 2     \* concurrent service calls (asyncio tasks)
MaxCount == 2       \* largest count of a direct send_command(cmd, count)
MaxTimers == 2      \* outstanding async_call_later callbacks the model can hold

\* ------------------------------------------------------- program constants
STATE_ON == "on"
STATE_OFF == "off"
STATE_UNAVAILABLE == "unavailable"
None == "None"
NoValue == -1
Unset == "unset"    \* an attribute __init__ never assigned (reading it raises)

CMD_BRIGHTNESS_INCREASE == "brighten"
CMD_BRIGHTNESS_DECREASE == "dim"
CMD_COLORMODE_COLDER == "colder"
CMD_COLORMODE_WARMER == "warmer"
CMD_POWER_ON == "on"
CMD_POWER_OFF == "off"
CMD_NIGHTLIGHT == "night"

AllCommands ==
  {CMD_BRIGHTNESS_INCREASE, CMD_BRIGHTNESS_DECREASE, CMD_COLORMODE_COLDER,
   CMD_COLORMODE_WARMER, CMD_POWER_ON, CMD_POWER_OFF, CMD_NIGHTLIGHT}

\* --------------------------------------------- device data and call inputs
\* device_data["commands"]: the command names a device file may define
CommandSets ==
  { AllCommands,
    {CMD_POWER_ON, CMD_POWER_OFF, CMD_BRIGHTNESS_INCREASE, CMD_BRIGHTNESS_DECREASE},
    {CMD_POWER_ON, CMD_NIGHTLIGHT},
    {CMD_NIGHTLIGHT, CMD_COLORMODE_COLDER, CMD_COLORMODE_WARMER} }

\* device_data["brightness"] and device_data["colorTemperature"], ascending
BrightnessScales == { <<>>, <<50, 100>>, <<25, 50, 75, 100>>, <<0, 25, 50, 75, 100>> }
ColorTempScales == { <<>>, <<2700, 4000, 6500>> }

\* ATTR_BRIGHTNESS / ATTR_COLOR_TEMP_KELVIN of a turn-on call (NoValue: absent)
BrightnessTargets == {NoValue, 1, 50, 70, 76, 100}
ColorTempTargets == {NoValue, 2700, 4000, 6500}

\* states of the power sensor entity (None: the entity has no state)
SensorStates == {STATE_ON, STATE_OFF, STATE_UNAVAILABLE}

Callers == 1..NumCallers

VARIABLES
  commands, brightnesses, colortemps,       \* device data (read-only)
  support_color_mode, support_brightness,
  added,                                    \* async_added_to_hass has run
  power, on_by_remote, brightness, colortemp,
  state,                                    \* self._state
  power_sensor_check_expect, power_sensor_check_cancel,
  timers,                                   \* outstanding async_call_later handles
  sensor,                                   \* hass.states.get(power_sensor).state
  temp_lock,                                \* asyncio.Lock: [locked, waiters]
  pc, frame,                                \* per task: position and locals
  sent                                      \* invocations of controller.send, in order,
                                            \* by each task's current or latest call

config == <<commands, brightnesses, colortemps, support_color_mode, support_brightness>>
assumed == <<power, on_by_remote, brightness, colortemp>>
check == <<state, power_sensor_check_expect, power_sensor_check_cancel, timers>>
tasks == <<temp_lock, pc, frame, sent>>
vars == <<config, added, assumed, check, sensor, tasks>>

\* ------------------------------------------------------------------ helpers
Abs(x) == IF x < 0 THEN -x ELSE x

\* DeviceData.closest_match(value, list): 0-based index of the entry closest to
\* value by absolute difference, the first such entry on a tie.
closest_match(value, list) ==
  CHOOSE i \in 0..(Len(list) - 1) :
    /\ \A j \in 0..(Len(list) - 1) : Abs(list[i + 1] - value) <= Abs(list[j + 1] - value)
    /\ \A j \in 0..(i - 1) : Abs(list[j + 1] - value) > Abs(list[i + 1] - value)

\* max_color_temp_kelvin: the last entry of the scale, None without a scale
max_color_temp_kelvin(scale) == IF scale # <<>> THEN scale[Len(scale)] ELSE NoValue

\* __init__: the colour mode the command names of the device select
color_mode_of(cmds) ==
  IF CMD_COLORMODE_COLDER \in cmds /\ CMD_COLORMODE_WARMER \in cmds THEN "color_temp"
  ELSE IF CMD_NIGHTLIGHT \in cmds
          \/ (CMD_BRIGHTNESS_INCREASE \in cmds /\ CMD_BRIGHTNESS_DECREASE \in cmds)
       THEN "brightness"
  ELSE IF CMD_POWER_OFF \in cmds /\ CMD_POWER_ON \in cmds THEN "onoff"
  ELSE "unknown"

\* __init__: brightness is supported with a nightlight or with both step commands
brightness_supported(cmds) ==
  CMD_NIGHTLIGHT \in cmds
  \/ (CMD_BRIGHTNESS_INCREASE \in cmds /\ CMD_BRIGHTNESS_DECREASE \in cmds)

\* is_on: the value the entity reports
is_on_of(p, r) == p = STATE_ON \/ r
is_on == is_on_of(power, on_by_remote)

\* the assumed state as one record
Cur ==
  [power |-> power, on_by_remote |-> on_by_remote,
   brightness |-> brightness, colortemp |-> colortemp]

NoReq == [cmd |-> "", count |-> 0]
NoParams == [brightness |-> NoValue, color_temp_kelvin |-> NoValue, cmd |-> "", count |-> 0]

\* what one section of a service call did: the assumed state it leaves, the
\* send_command call it makes (NoReq: none) and the indices it computed
Skip(a, did) ==
  [ran |-> FALSE, a |-> a, did |-> did, req |-> NoReq, kind |-> "", old |-> NoValue, new |-> NoValue]

\* async_turn_on, "Turn the light on if off"
turn_on_power(a, did) ==
  IF a.power # STATE_ON /\ ~a.on_by_remote
  THEN [ran |-> TRUE, a |-> [a EXCEPT !.power = STATE_ON], did |-> TRUE,
        req |-> [cmd |-> CMD_POWER_ON, count |-> 1], kind |-> "power",
        old |-> NoValue, new |-> NoValue]
  ELSE Skip(a, did)

\* the resync applied before the test for a move
color_temp_steps_resync_first(old_color_temp, new_color_temp) ==
  LET steps == new_color_temp - old_color_temp
      ends == new_color_temp = Len(colortemps) - 1 \/ new_color_temp = 0
  IN [cmd |-> IF steps < 0 THEN CMD_COLORMODE_WARMER ELSE CMD_COLORMODE_COLDER,
      send |-> Abs(steps) > 0 \/ ends,
      steps |-> IF ends THEN Len(colortemps) ELSE Abs(steps)]

\* async_turn_on, colour temperature: direction and number of steps
color_temp_steps(old_color_temp, new_color_temp) ==
  LET steps == new_color_temp - old_color_temp
  IN [cmd |-> IF steps < 0 THEN CMD_COLORMODE_WARMER ELSE CMD_COLORMODE_COLDER,
      send |-> Abs(steps) > 0,
      steps |-> IF Abs(steps) > 0
                   /\ (new_color_temp = Len(colortemps) - 1 \/ new_color_temp = 0)
                THEN Len(colortemps)
                ELSE Abs(steps)]

\* async_turn_on, colour temperature section
turn_on_color_temp(a, did, params) ==
  IF params.color_temp_kelvin # NoValue /\ support_color_mode = "color_temp"
  THEN LET old_color_temp == closest_match(a.colortemp, colortemps)
           new_color_temp == closest_match(params.color_temp_kelvin, colortemps)
           st == color_temp_steps(old_color_temp, new_color_temp)
       IN IF st.send
          THEN [ran |-> TRUE, a |-> [a EXCEPT !.colortemp = colortemps[new_color_temp + 1]],
                did |-> TRUE, req |-> [cmd |-> st.cmd, count |-> st.steps],
                kind |-> "colortemp", old |-> old_color_temp, new |-> new_color_temp]
          ELSE [ran |-> TRUE, a |-> a, did |-> TRUE, req |-> NoReq,
                kind |-> "colortemp", old |-> old_color_temp, new |-> new_color_temp]
  ELSE Skip(a, did)

\* the direction test inverted
brightness_steps_inverted(old_brightness, new_brightness) ==
  LET steps == new_brightness - old_brightness
  IN [cmd |-> IF steps > 0 THEN CMD_BRIGHTNESS_DECREASE ELSE CMD_BRIGHTNESS_INCREASE,
      send |-> Abs(steps) > 0,
      steps |-> IF Abs(steps) > 0
                   /\ (new_brightness = Len(brightnesses) - 1 \/ new_brightness = 0)
                THEN Len(colortemps)
                ELSE Abs(steps)]

\* async_turn_on, brightness: direction and number of steps
brightness_steps(old_brightness, new_brightness) ==
  LET steps == new_brightness - old_brightness
  IN [cmd |-> IF steps < 0 THEN CMD_BRIGHTNESS_DECREASE ELSE CMD_BRIGHTNESS_INCREASE,
      send |-> Abs(steps) > 0,
      steps |-> IF Abs(steps) > 0
                   /\ (new_brightness = Len(brightnesses) - 1 \/ new_brightness = 0)
                THEN Len(colortemps)
                ELSE Abs(steps)]

\* the brightness section with the nightlight case tried after the scale
turn_on_brightness_scale_first(a, did, params) ==
  IF params.brightness # NoValue /\ support_brightness
  THEN IF brightnesses # <<>>
       THEN LET old_brightness == closest_match(a.brightness, brightnesses)
                new_brightness == closest_match(params.brightness, brightnesses)
                st == brightness_steps(old_brightness, new_brightness)
            IN IF st.send
               THEN [ran |-> TRUE,
                     a |-> [a EXCEPT !.brightness = brightnesses[new_brightness + 1]],
                     did |-> TRUE, req |-> [cmd |-> st.cmd, count |-> st.steps],
                     kind |-> "brightness", old |-> old_brightness, new |-> new_brightness]
               ELSE [ran |-> TRUE, a |-> a, did |-> TRUE, req |-> NoReq,
                     kind |-> "brightness", old |-> old_brightness, new |-> new_brightness]
       ELSE IF params.brightness = 1 /\ CMD_NIGHTLIGHT \in commands
       THEN [ran |-> TRUE, a |-> [a EXCEPT !.brightness = 1, !.power = STATE_ON],
             did |-> TRUE, req |-> [cmd |-> CMD_NIGHTLIGHT, count |-> 1],
             kind |-> "night", old |-> NoValue, new |-> NoValue]
       ELSE Skip(a, did)
  ELSE Skip(a, did)

\* async_turn_on, brightness section (nightlight special case first)
turn_on_brightness(a, did, params) ==
  IF params.brightness # NoValue /\ support_brightness
  THEN IF params.brightness = 1 /\ CMD_NIGHTLIGHT \in commands
       THEN [ran |-> TRUE, a |-> [a EXCEPT !.brightness = 1, !.power = STATE_ON],
             did |-> TRUE, req |-> [cmd |-> CMD_NIGHTLIGHT, count |-> 1],
             kind |-> "night", old |-> NoValue, new |-> NoValue]
       ELSE IF brightnesses # <<>>
       THEN LET old_brightness == closest_match(a.brightness, brightnesses)
                new_brightness == closest_match(params.brightness, brightnesses)
                st == brightness_steps(old_brightness, new_brightness)
            IN IF st.send
               THEN [ran |-> TRUE,
                     a |-> [a EXCEPT !.brightness = brightnesses[new_brightness + 1]],
                     did |-> TRUE, req |-> [cmd |-> st.cmd, count |-> st.steps],
                     kind |-> "brightness", old |-> old_brightness, new |-> new_brightness]
               ELSE [ran |-> TRUE, a |-> a, did |-> TRUE, req |-> NoReq,
                     kind |-> "brightness", old |-> old_brightness, new |-> new_brightness]
       ELSE Skip(a, did)
  ELSE Skip(a, did)

\* the fallback taken whether or not the light was detected as on
turn_on_fallback_regardless(a, did) ==
  IF ~did
  THEN [ran |-> TRUE, a |-> [a EXCEPT !.power = STATE_ON], did |-> did,
        req |-> [cmd |-> CMD_POWER_ON, count |-> 1], kind |-> "fallback",
        old |-> NoValue, new |-> NoValue]
  ELSE Skip(a, did)

\* async_turn_on, "If we did nothing above, and the light is not detected as on"
turn_on_fallback(a, did) ==
  IF ~did /\ ~a.on_by_remote
  THEN [ran |-> TRUE, a |-> [a EXCEPT !.power = STATE_ON], did |-> did,
        req |-> [cmd |-> CMD_POWER_ON, count |-> 1], kind |-> "fallback",
        old |-> NoValue, new |-> NoValue]
  ELSE Skip(a, did)

\* a turn-off that does nothing when the power is assumed OFF
turn_off_if_on(a, did) ==
  IF a.power = STATE_ON
  THEN [ran |-> TRUE, a |-> [a EXCEPT !.power = STATE_OFF], did |-> did,
        req |-> [cmd |-> CMD_POWER_OFF, count |-> 1], kind |-> "off",
        old |-> NoValue, new |-> NoValue]
  ELSE Skip(a, did)

\* async_turn_off
turn_off(a, did) ==
  [ran |-> TRUE, a |-> [a EXCEPT !.power = STATE_OFF], did |-> did,
   req |-> [cmd |-> CMD_POWER_OFF, count |-> 1], kind |-> "off",
   old |-> NoValue, new |-> NoValue]

\* a send_command(cmd, count) called on the entity directly
direct_send(a, did, params) ==
  [ran |-> TRUE, a |-> a, did |-> did,
   req |-> [cmd |-> params.cmd, count |-> params.count], kind |-> "direct",
   old |-> NoValue, new |-> NoValue]

\* the sections of a service call, in program order
LastSection(op) == IF op = "async_turn_on" THEN 4 ELSE 1

Section(op, n, a, did, params) ==
  IF op = "async_turn_on"
  THEN CASE n = 1 -> turn_on_power(a, did)
         [] n = 2 -> turn_on_color_temp(a, did, params)
         [] n = 3 -> turn_on_brightness(a, did, params)
         [] OTHER -> turn_on_fallback(a, did)
  ELSE IF op = "async_turn_off" THEN turn_off(a, did)
  ELSE direct_send(a, did, params)

\* send_command: "if cmd not in self._commands: return"
known_command(cmd) == cmd \in commands

\* a lock that excludes nobody
lock_free_for_all(L) == TRUE

\* asyncio.Lock.acquire takes the lock at once when it is free and nobody queues
lock_free(L) == ~L.locked /\ L.waiters = <<>>

\* what a section did, as recorded in the task's trace
Entry(r, pre) ==
  [kind |-> r.kind, cmd |-> r.req.cmd, count |-> r.req.count,
   requested |-> r.req # NoReq, known |-> r.req # NoReq /\ known_command(r.req.cmd),
   old |-> r.old, new |-> r.new, pre |-> pre, post |-> r.a]

\* A service call between two suspensions: the assumed state a, its local
\* did_something, the next section to run, the burst it is suspended on
\* (NoReq: none) and its trace.
\* The section x.section of the call has run with result r: a send_command
\* that returns at once (unknown command, or an empty burst on a free lock)
\* lets the call run on, any other suspends it on the burst.
after_section(x, r, free) ==
  LET t == IF r.ran THEN Append(x.trace, Entry(r, x.a)) ELSE x.trace
  IN IF r.req = NoReq \/ ~known_command(r.req.cmd)
     THEN [a |-> r.a, did |-> r.did, section |-> x.section + 1, req |-> NoReq,
           kind |-> "", trace |-> t]
     ELSE IF r.req.count <= 0 /\ free
     THEN [a |-> [r.a EXCEPT !.on_by_remote = FALSE], did |-> r.did,
           section |-> x.section + 1, req |-> NoReq, kind |-> "", trace |-> t]
     ELSE [a |-> r.a, did |-> r.did, section |-> x.section + 1, req |-> r.req,
           kind |-> r.kind, trace |-> t]

\* run the next section, unless the call is suspended or has returned
\* (values are bound through singleton sets so that each is computed once)
advance(op, params, free, x) ==
  IF x.req # NoReq \/ x.section > LastSection(op) THEN x
  ELSE CHOOSE y \in { after_section(x, r, free) :
                      r \in {Section(op, x.section, x.a, x.did, params)} } : TRUE

\* Run a service call from section n on until it suspends (req is the burst
\* to send) or returns (req = NoReq); a call has at most four sections.
run_from(op, n, a, did, params, trace, free) ==
  CHOOSE x4 \in
    { advance(op, params, free, x3) : x3 \in
      { advance(op, params, free, x2) : x2 \in
        { advance(op, params, free, x1) : x1 \in
          { advance(op, params, free, x0) : x0 \in
            { [a |-> a, did |-> did, section |-> n, req |-> NoReq, kind |-> "",
               trace |-> trace] } } } } } : TRUE

NoFrame ==
  [op |-> "", via |-> "", params |-> NoParams, did_something |-> FALSE,
   section |-> 1, req |-> NoReq, kind |-> "", left |-> 0, trace |-> <<>>]

\* ------------------------------------------------------------ initial state
\* __init__: the entity as constructed from a device file.  A device that
\* steps its colour temperature has a colour temperature scale.
Init ==
  /\ commands \in CommandSets
  /\ brightnesses \in BrightnessScales
  /\ colortemps \in ColorTempScales
  /\ color_mode_of(commands) = "color_temp" => colortemps # <<>>
  /\ support_color_mode = color_mode_of(commands)
  /\ support_brightness = brightness_supported(commands)
  /\ added = FALSE
  /\ power = STATE_ON
  /\ on_by_remote = FALSE
  /\ brightness = IF brightness_supported(commands) THEN 100 ELSE NoValue
  /\ colortemp = IF color_mode_of(commands) = "color_temp"
                 THEN max_color_temp_kelvin(colortemps) ELSE NoValue
  /\ state = Unset
  /\ power_sensor_check_expect = None
  /\ power_sensor_check_cancel = 0
  /\ timers = {}
  /\ sensor = None
  /\ temp_lock = [locked |-> FALSE, waiters |-> <<>>]
  /\ pc = [c \in Callers |-> "idle"]
  /\ frame = [c \in Callers |-> NoFrame]
  /\ sent = <<>>

\* ------------------------------------------------------------------ actions
\* the previous state the restore mechanism may hand back (NoLastState: nothing stored)
NoLastState == [state |-> None, brightness |-> NoValue, color_temp_kelvin |-> NoValue]

LastStates ==
  {NoLastState} \cup
  [state : {STATE_ON, STATE_OFF},
   brightness : {NoValue, 50},
   color_temp_kelvin : {NoValue, 2700}]

\* async_added_to_hass: restore the stored state, subscribe to the power sensor
async_added_to_hass(last_state) ==
  /\ ~added
  /\ added' = TRUE
  /\ IF last_state = NoLastState
     THEN UNCHANGED <<power, brightness, colortemp>>
     ELSE /\ power' = last_state.state
          /\ brightness' = IF last_state.brightness # NoValue
                           THEN last_state.brightness ELSE brightness
          /\ colortemp' = IF last_state.color_temp_kelvin # NoValue
                          THEN last_state.color_temp_kelvin ELSE colortemp
  /\ UNCHANGED <<config, on_by_remote, check, sensor, tasks>>

\* Task c runs on from section f.section with assumed state a and lock L until
\* it suspends in send_command or its service call returns.
Proceed(c, f, a, L) ==
  \E r \in {run_from(f.op, f.section, a, f.did_something, f.params, f.trace, lock_free(L))} :
     /\ power' = r.a.power
     /\ brightness' = r.a.brightness
     /\ colortemp' = r.a.colortemp
     /\ frame' = [frame EXCEPT ![c] =
                    [f EXCEPT !.section = r.section, !.did_something = r.did,
                              !.trace = r.trace, !.req = r.req, !.kind = r.kind,
                              !.left = r.req.count]]
     /\ IF r.req = NoReq
        THEN /\ on_by_remote' = r.a.on_by_remote
             /\ temp_lock' = L
             /\ pc' = [pc EXCEPT ![c] = "idle"]
        ELSE IF lock_free(L)
        THEN /\ on_by_remote' = FALSE
             /\ temp_lock' = [L EXCEPT !.locked = TRUE]
             /\ pc' = [pc EXCEPT ![c] = "send"]
        ELSE /\ on_by_remote' = r.a.on_by_remote
             /\ temp_lock' = [L EXCEPT !.waiters = Append(@, c)]
             /\ pc' = [pc EXCEPT ![c] = "acquire"]

\* a service call starts in task c, the first task that is free
Start(c, op, via, params) ==
  /\ added
  /\ \A d \in Callers : d < c => pc[d] # "idle"
  /\ sent' = SelectSeq(sent, LAMBDA e : e.task # c)
  /\ Proceed(c, [NoFrame EXCEPT !.op = op, !.via = via, !.params = params], Cur, temp_lock)
  /\ UNCHANGED <<config, added, check, sensor>>

\* async_turn_on(**params)
async_turn_on(c, params) ==
  /\ pc[c] = "idle"
  /\ Start(c, "async_turn_on", "async_turn_on", params)

\* async_turn_off()
async_turn_off(c) ==
  /\ pc[c] = "idle"
  /\ Start(c, "async_turn_off", "async_turn_off", NoParams)

\* async_toggle(): turn-on without targets when not is_on, turn-off otherwise
async_toggle(c) ==
  /\ pc[c] = "idle"
  /\ Start(c, IF ~is_on THEN "async_turn_on" ELSE "async_turn_off", "async_toggle", NoParams)

\* send_command(cmd, count) called directly
send_command(c, cmd, count) ==
  /\ pc[c] = "idle"
  /\ Start(c, "send_command", "send_command", [NoParams EXCEPT !.cmd = cmd, !.count = count])

\* send_command, "async with self._temp_lock": a queued task gets the lock it
\* was woken for; an empty burst releases it again at once
lock_acquired(c) ==
  /\ pc[c] = "acquire"
  /\ ~temp_lock.locked
  /\ temp_lock.waiters # <<>>
  /\ Head(temp_lock.waiters) = c
  /\ LET L == [temp_lock EXCEPT !.waiters = Tail(@)]
     IN IF frame[c].left > 0
        THEN /\ temp_lock' = [L EXCEPT !.locked = TRUE]
             /\ on_by_remote' = FALSE
             /\ pc' = [pc EXCEPT ![c] = "send"]
             /\ UNCHANGED <<power, brightness, colortemp, frame>>
        ELSE Proceed(c, frame[c], [Cur EXCEPT !.on_by_remote = FALSE], L)
  /\ UNCHANGED <<config, added, check, sensor, sent>>

\* a lock that stays held when the burst ended with an exception
release_on_success(L, ok) == IF ok THEN [L EXCEPT !.locked = FALSE] ELSE L

\* send_command, leaving "async with self._temp_lock": the lock is released
\* whether the last attempt returned (ok) or raised
release(L, ok) == [L EXCEPT !.locked = FALSE]

\* send_command, the for loop inside try/except: whether the burst goes on
\* after an attempt that left `left` repeats and did or did not raise
burst_continues(ok, left) == ok /\ left > 0

\* send_command, "await self._controller.send(remote_cmd)": one attempt of
\* the burst; after the last one the lock is released and the task runs on
controller_send(c, ok) ==
  /\ pc[c] = "send"
  /\ sent' = Append(sent, [task |-> c, kind |-> frame[c].kind,
                           cmd |-> frame[c].req.cmd, ok |-> ok])
  /\ IF burst_continues(ok, frame[c].left - 1)
     THEN /\ frame' = [frame EXCEPT ![c].left = @ - 1]
          /\ UNCHANGED <<assumed, temp_lock, pc>>
     ELSE Proceed(c, [frame[c] EXCEPT !.left = IF ok THEN 0 ELSE @ - 1], Cur,
                  release(temp_lock, ok))
  /\ UNCHANGED <<config, added, check, sensor>>

\* _async_power_sensor_changed(event): the sensor entity goes from its state
\* to new_state.  self._state is read where the source reads it; reading it
\* while it is unset raises and ends the handler there.
power_sensor_changed(new_state) ==
  /\ added
  /\ sensor' = new_state
  /\ IF new_state = None \/ (sensor # None /\ new_state = sensor)
     THEN UNCHANGED <<on_by_remote, state>>
     ELSE IF new_state = STATE_ON
     THEN IF state = Unset THEN UNCHANGED <<on_by_remote, state>>
          ELSE IF state = STATE_OFF THEN state' = STATE_ON /\ on_by_remote' = TRUE
          ELSE UNCHANGED <<on_by_remote, state>>
     ELSE IF new_state = STATE_OFF
     THEN /\ on_by_remote' = FALSE
          /\ state' = IF state = STATE_ON THEN STATE_OFF ELSE state
     ELSE UNCHANGED <<on_by_remote, state>>
  /\ UNCHANGED <<config, added, power, brightness, colortemp,
                 power_sensor_check_expect, power_sensor_check_cancel, timers, tasks>>

\* a schedule that leaves the pending check armed
cancel_pending_never(ts, handle) == ts

\* _async_power_sensor_check_schedule, "if self._power_sensor_check_cancel":
\* the outstanding callbacks once the pending one (handle, 0: none) is cancelled
cancel_pending(ts, handle) == IF handle # 0 THEN ts \ {handle} ELSE ts

\* _async_power_sensor_check_schedule(state): cancel the pending check, arm a new one
power_sensor_check_schedule(expect) ==
  /\ added
  /\ Cardinality(timers) < MaxTimers
  /\ LET kept == cancel_pending(timers, power_sensor_check_cancel)
         t == CHOOSE t \in 1..(MaxTimers + 1) : t \notin kept
     IN /\ timers' = kept \cup {t}
        /\ power_sensor_check_cancel' = t
  /\ power_sensor_check_expect' = expect
  /\ UNCHANGED <<config, added, assumed, state, sensor, tasks>>

\* _async_power_sensor_check: the delay of timer t has elapsed
power_sensor_check(t) ==
  /\ t \in timers
  /\ timers' = timers \ {t}
  /\ power_sensor_check_cancel' = 0
  /\ power_sensor_check_expect' = None
  /\ state' = IF /\ power_sensor_check_expect \in {STATE_ON, STATE_OFF}
                 /\ sensor \in {STATE_ON, STATE_OFF}
                 /\ power_sensor_check_expect # sensor
              THEN sensor ELSE state
  /\ UNCHANGED <<config, added, assumed, sensor, tasks>>

Next ==
  \/ \E last_state \in LastStates : async_added_to_hass(last_state)
  \/ \E c \in Callers : \E b \in BrightnessTargets, k \in ColorTempTargets :
       async_turn_on(c, [NoParams EXCEPT !.brightness = b, !.color_temp_kelvin = k])
  \/ \E c \in Callers : async_turn_off(c)
  \/ \E c \in Callers : async_toggle(c)
  \/ \E c \in Callers : \E cmd \in AllCommands, count \in 1..MaxCount :
       send_command(c, cmd, count)
  \/ \E c \in Callers : lock_acquired(c)
  \/ \E c \in Callers : \E ok \in BOOLEAN : controller_send(c, ok)
  \/ \E new_state \in SensorStates \cup {None} : power_sensor_changed(new_state)
  \/ \E expect \in {STATE_ON, STATE_OFF} : power_sensor_check_schedule(expect)
  \/ \E t \in 1..(MaxTimers + 1) : power_sensor_check(t)

\* The entity with every device, every input and every interleaving.
Spec == Init /\ [][Next]_vars

\* ------------------------------------------------- the specifications checked
\* Each is Spec restricted to some devices, inputs and operations, so each of
\* its behaviours is a behaviour of Spec.

\* the device used where the device data is not what is examined
FullDevice ==
  /\ commands = AllCommands
  /\ brightnesses = <<25, 50, 75, 100>>
  /\ colortemps = <<2700, 4000, 6500>>

\* Step translation: every device, every restored state, turn-on calls with
\* every pair of targets one after the other, transmissions that may fail.
NextSteps ==
  \/ \E last_state \in LastStates : async_added_to_hass(last_state)
  \/ \E b \in BrightnessTargets, k \in ColorTempTargets :
       async_turn_on(1, [NoParams EXCEPT !.brightness = b, !.color_temp_kelvin = k])
  \/ \E ok \in BOOLEAN : controller_send(1, ok)

SpecSteps == Init /\ [][NextSteps]_vars

\* Command dispatch: concurrent service calls of every kind on one device,
\* transmissions that may fail.
InitDispatch == Init /\ FullDevice

NextDispatch ==
  \/ async_added_to_hass(NoLastState)
  \/ \E c \in Callers : \E k \in {4000} :
       async_turn_on(c, [NoParams EXCEPT !.color_temp_kelvin = k])
  \/ \E c \in Callers : async_turn_off(c)
  \/ \E c \in Callers : async_toggle(c)
  \/ \E c \in Callers : \E count \in 1..MaxCount : send_command(c, CMD_NIGHTLIGHT, count)
  \/ \E c \in Callers : lock_acquired(c)
  \/ \E c \in Callers : \E ok \in BOOLEAN : controller_send(c, ok)

SpecDispatch == InitDispatch /\ [][NextDispatch]_vars

\* Power tracking: one device, service calls one after the other, the power
\* sensor, the power sensor check and its timer.
InitSensor == Init /\ FullDevice

NextSensor ==
  \/ \E last_state \in {NoLastState, [NoLastState EXCEPT !.state = STATE_OFF]} :
       async_added_to_hass(last_state)
  \/ \E b \in {NoValue, 50} : async_turn_on(1, [NoParams EXCEPT !.brightness = b])
  \/ async_turn_off(1)
  \/ async_toggle(1)
  \/ \E ok \in BOOLEAN : controller_send(1, ok)
  \/ \E new_state \in SensorStates \cup {None} : power_sensor_changed(new_state)
  \/ \E expect \in {STATE_ON, STATE_OFF} : power_sensor_check_schedule(expect)
  \/ \E t \in 1..(MaxTimers + 1) : power_sensor_check(t)

SpecSensor == InitSensor /\ [][NextSensor]_vars

\* ------------------------------------------------------------------ claims
\* what the sections of task c's current or latest call did
TraceEntries(c) == { frame[c].trace[i] : i \in DOMAIN frame[c].trace }

\* the invocations of controller.send by the burst `kind` of task c's call
Attempts(c, kind) == { i \in DOMAIN sent : sent[i].task = c /\ sent[i].kind = kind }

\* the burst `kind` of task c's call is neither waiting nor being sent
BurstOver(c, kind) == pc[c] = "idle" \/ frame[c].kind # kind

\* no attempt of the burst raised
NoFailure(c, kind) == \A i \in Attempts(c, kind) : sent[i].ok

SameBurst(i, j) == sent[i].task = sent[j].task /\ sent[i].kind = sent[j].kind

AtExtreme(n, scale) == n = 0 \/ n = Len(scale) - 1

\* task c has just finished the burst it was sending
BurstEnds(c) == pc[c] = "send" /\ (pc'[c] = "idle" \/ frame'[c].kind # frame[c].kind)

\* C1: concurrent send_command calls are never interleaved: at most one call
\* is inside its burst at a time, and in the order in which payloads reach
\* the transport the payloads of one burst are never separated by a payload
\* of another burst.
C1_BurstsNotInterleaved ==
  /\ \A c, d \in Callers : c # d => ~(pc[c] = "send" /\ pc[d] = "send")
  /\ \A i, j, k \in DOMAIN sent : (i < j /\ j < k /\ SameBurst(i, k)) => SameBurst(i, j)

\* C1 witness: a call is in the middle of a burst of several repeats while
\* another call waits for the lock.
C1_Witness ==
  \E c, d \in Callers :
    /\ c # d
    /\ pc[c] = "send" /\ frame[c].left > 0 /\ frame[c].left < frame[c].req.count
    /\ pc[d] = "acquire"

\* C2: when the burst of a power command (POWER_ON of a turn-on from assumed
\* OFF, POWER_OFF of a turn-off) ends, a confirmation check expecting the
\* commanded state is armed.
C2_PowerCommandArmsCheck ==
  [][\A c \in Callers :
       (BurstEnds(c) /\ frame[c].kind \in {"power", "off"}) =>
         /\ power_sensor_check_cancel' \in timers'
         /\ power_sensor_check_expect' =
              IF frame[c].kind = "power" THEN STATE_ON ELSE STATE_OFF]_vars

\* C3: a sensor event that reports a change to ON while the assumed power is
\* OFF and on_by_remote is false leaves on_by_remote true and the assumed
\* power ON, so is_on is true.
C3_SensorOnSetsOnByRemote ==
  [][(sensor # STATE_ON /\ sensor' = STATE_ON /\ power = STATE_OFF /\ ~on_by_remote) =>
       (on_by_remote' /\ power' = STATE_ON /\ is_on')]_vars

\* C4: a sensor event that reports a change to OFF leaves on_by_remote false
\* and, if the assumed power was ON, the assumed power OFF, so is_on is false.
C4_SensorOffClearsPower ==
  [][(sensor # STATE_OFF /\ sensor' = STATE_OFF) =>
       /\ ~on_by_remote'
       /\ power = STATE_ON => (power' = STATE_OFF /\ ~is_on')]_vars

\* C5: when the confirmation timer fires, the assumed power becomes the
\* sensor's value if the expected state and the sensor's value are both ON or
\* OFF values and disagree; otherwise power, on_by_remote, brightness and
\* colour temperature are unchanged.
C5_CheckOverwritesPower ==
  [][(timers' # timers /\ timers' \subseteq timers) =>
       IF /\ power_sensor_check_expect \in {STATE_ON, STATE_OFF}
          /\ sensor \in {STATE_ON, STATE_OFF}
          /\ power_sensor_check_expect # sensor
       THEN power' = sensor
       ELSE UNCHANGED assumed]_vars

\* C6: every send_command(cmd, count) with a known cmd invokes the transport
\* exactly count times, whichever attempts raise.
C6_BurstBestEffort ==
  \A c \in Callers : \A e \in TraceEntries(c) :
    (e.requested /\ e.known /\ BurstOver(c, e.kind)) =>
      Cardinality(Attempts(c, e.kind)) = e.count

\* C7: a request for a command name that the command mapping lacks transmits
\* nothing and leaves power, on_by_remote, brightness and colour temperature
\* as they were before the request.
C7_UnknownCommandNoOp ==
  \A c \in Callers : \A e \in TraceEntries(c) :
    (e.requested /\ ~e.known) => (Attempts(c, e.kind) = {} /\ e.post = e.pre)

\* C8: a turn-on whose brightness target is at the first or last index of the
\* brightness scale and not at the current index requests the brighten or dim
\* command (a command of the device) len(brightness scale) times, whatever
\* the brightness scale and the colour temperature scale of the device.
C8_BrightnessResync ==
  \A c \in Callers : \A e \in TraceEntries(c) :
    (/\ e.kind = "brightness" /\ e.new # e.old /\ AtExtreme(e.new, brightnesses)
     /\ {CMD_BRIGHTNESS_INCREASE, CMD_BRIGHTNESS_DECREASE} \subseteq commands) =>
      /\ e.requested
      /\ e.cmd \in {CMD_BRIGHTNESS_INCREASE, CMD_BRIGHTNESS_DECREASE}
      /\ e.count = Len(brightnesses)

\* C9: a turn-on whose colour temperature target is at the first or last index
\* of the colour temperature scale and not at the current index requests the
\* warmer or colder command with a repeat count of len(colour temperature
\* scale), whatever the distance, and has invoked the transport exactly that
\* often for it once the burst is over.
C9_ColorTempResync ==
  \A c \in Callers : \A e \in TraceEntries(c) :
    (e.kind = "colortemp" /\ e.new # e.old /\ AtExtreme(e.new, colortemps)) =>
      /\ e.requested /\ e.known
      /\ e.cmd \in {CMD_COLORMODE_WARMER, CMD_COLORMODE_COLDER}
      /\ e.count = Len(colortemps)
      /\ BurstOver(c, "colortemp") =>
           Cardinality(Attempts(c, "colortemp")) = Len(colortemps)

\* C10: for every index i of the colour temperature (brightness) scale, a
\* turn-on that finds the tracked position at index i and whose target is the
\* scale value at i requests and transmits no step command and leaves the
\* tracked value as it is (the scale value at i when that was tracked).
C10_AtTargetNoSteps ==
  \A c \in Callers : \A e \in TraceEntries(c) :
    /\ (/\ e.kind = "colortemp"
        /\ \E i \in 0..(Len(colortemps) - 1) :
             e.old = i /\ frame[c].params.color_temp_kelvin = colortemps[i + 1]) =>
         (~e.requested /\ e.post.colortemp = e.pre.colortemp
          /\ Attempts(c, "colortemp") = {})
    /\ (/\ e.kind = "brightness"
        /\ \E i \in 0..(Len(brightnesses) - 1) :
             e.old = i /\ frame[c].params.brightness = brightnesses[i + 1]) =>
         (~e.requested /\ e.post.brightness = e.pre.brightness
          /\ Attempts(c, "brightness") = {})

\* C10 witness: a finished turn-on whose targets are the last value of the
\* colour temperature scale and the first value of the brightness scale, the
\* values tracked when it ran.
C10_Witness ==
  \E c \in Callers : \E e, g \in TraceEntries(c) :
    /\ pc[c] = "idle"
    /\ e.kind = "colortemp" /\ e.old = Len(colortemps) - 1
    /\ e.pre.colortemp = frame[c].params.color_temp_kelvin
    /\ g.kind = "brightness" /\ g.old = 0
    /\ g.pre.brightness = frame[c].params.brightness

\* C11: for every scale and all indices i (current) and j (target) of it with
\* i # j and j neither the first nor the last index, a turn-on that moves from
\* i to j requests the step command of the device |j - i| times, the
\* increase command (brighten, colder) when j > i and the decrease command
\* (dim, warmer) when j < i, tracks the scale value at j afterwards, and has
\* invoked the transport |j - i| times for it once the burst is over.
C11_MidScaleSteps ==
  \A c \in Callers : \A e \in TraceEntries(c) :
    /\ (e.kind = "colortemp" /\ e.new # e.old /\ ~AtExtreme(e.new, colortemps)) =>
         /\ e.requested /\ e.known /\ e.count = Abs(e.new - e.old)
         /\ e.cmd = IF e.new > e.old THEN CMD_COLORMODE_COLDER ELSE CMD_COLORMODE_WARMER
         /\ e.post.colortemp = colortemps[e.new + 1]
         /\ BurstOver(c, "colortemp") =>
              Cardinality(Attempts(c, "colortemp")) = Abs(e.new - e.old)
    /\ (/\ e.kind = "brightness" /\ e.new # e.old /\ ~AtExtreme(e.new, brightnesses)
        /\ {CMD_BRIGHTNESS_INCREASE, CMD_BRIGHTNESS_DECREASE} \subseteq commands) =>
         /\ e.requested /\ e.known /\ e.count = Abs(e.new - e.old)
         /\ e.cmd = IF e.new > e.old THEN CMD_BRIGHTNESS_INCREASE
                                     ELSE CMD_BRIGHTNESS_DECREASE
         /\ e.post.brightness = brightnesses[e.new + 1]
         /\ BurstOver(c, "brightness") =>
              Cardinality(Attempts(c, "brightness")) = Abs(e.new - e.old)

\* C12: with the brightness scale [0, 25, 50, 75, 100] and the tracked
\* brightness 0 (index 0), a turn-on with the brightness target 76 finds the
\* target index 4 (value 100), requests the brighten command 5 times, tracks
\* the brightness 100 afterwards, and has invoked the transport 5 times for it
\* once the burst is over.
C12_ScenarioA ==
  \A c \in Callers : \A e \in TraceEntries(c) :
    (/\ e.kind = "brightness" /\ brightnesses = <<0, 25, 50, 75, 100>>
     /\ e.pre.brightness = 0 /\ frame[c].params.brightness = 76
     /\ CMD_BRIGHTNESS_INCREASE \in commands) =>
      /\ e.old = 0 /\ e.new = 4
      /\ e.requested /\ e.cmd = CMD_BRIGHTNESS_INCREASE /\ e.count = 5
      /\ e.post.brightness = 100
      /\ BurstOver(c, "brightness") => Cardinality(Attempts(c, "brightness")) = 5

\* the attempts of the burst `kind` of task c's call, in order, raised at
\* most once and then at the last attempt
FailureEndsBurst(c, kind) ==
  \A i, j \in Attempts(c, kind) : (i < j) => sent[i].ok

\* C12 as amended: with the brightness scale [0, 25, 50, 75, 100], the tracked
\* brightness 0 and the brighten command in the command mapping, a turn-on
\* with the brightness target 76 finds the target index 3 (value 75, the
\* closest by absolute difference), calls send_command for the brighten
\* command with the repeat count 3 and tracks the brightness 75 afterwards;
\* the transport is invoked 3 times for it, or fewer when an attempt raises,
\* which is then the last attempt.
C12_ScenarioA_Amended ==
  \A c \in Callers : \A e \in TraceEntries(c) :
    (/\ e.kind = "brightness" /\ brightnesses = <<0, 25, 50, 75, 100>>
     /\ e.pre.brightness = 0 /\ frame[c].params.brightness = 76
     /\ CMD_BRIGHTNESS_INCREASE \in commands) =>
      /\ e.old = 0 /\ e.new = 3
      /\ e.requested /\ e.known /\ e.cmd = CMD_BRIGHTNESS_INCREASE /\ e.count = 3
      /\ e.post.brightness = 75
      /\ Cardinality(Attempts(c, "brightness")) <= 3
      /\ FailureEndsBurst(c, "brightness")
      /\ BurstOver(c, "brightness") =>
           \/ Cardinality(Attempts(c, "brightness")) = 3
           \/ ~NoFailure(c, "brightness")

\* C12 witness: the scenario has run to its end and every attempt succeeded.
C12_Witness ==
  \E c \in Callers : \E e \in TraceEntries(c) :
    /\ e.kind = "brightness" /\ brightnesses = <<0, 25, 50, 75, 100>>
    /\ e.pre.brightness = 0 /\ frame[c].params.brightness = 76
    /\ CMD_BRIGHTNESS_INCREASE \in commands
    /\ pc[c] = "idle" /\ NoFailure(c, "brightness")
    /\ Cardinality(Attempts(c, "brightness")) = 3
    /\ brightness = 75

\* C13: on a device whose command mapping has the nightlight command, a
\* turn-on with the brightness target 1 requests no brighten or dim command
\* and transmits none, invokes the transport for the nightlight command at
\* most once, and when it has returned has invoked it exactly once and left
\* the tracked brightness 1 and the assumed power ON, whatever the brightness
\* scale (also none) and the brightness tracked before.
C13_Nightlight ==
  \A c \in Callers :
    (/\ frame[c].op = "async_turn_on" /\ frame[c].params.brightness = 1
     /\ CMD_NIGHTLIGHT \in commands) =>
      /\ \A e \in TraceEntries(c) : e.kind # "brightness"
      /\ \A i \in DOMAIN sent :
           sent[i].task = c =>
             sent[i].cmd \notin {CMD_BRIGHTNESS_INCREASE, CMD_BRIGHTNESS_DECREASE}
      /\ Cardinality(Attempts(c, "night")) <= 1
      /\ pc[c] = "idle" =>
           /\ Cardinality(Attempts(c, "night")) = 1
           /\ \E e \in TraceEntries(c) : e.kind = "night" /\ e.cmd = CMD_NIGHTLIGHT
           /\ brightness = 1
           /\ power = STATE_ON

\* C13 witness: such a turn-on has returned on a device with a brightness
\* scale whose tracked brightness was another value of the scale.
C13_Witness ==
  \E c \in Callers : \E e \in TraceEntries(c) :
    /\ frame[c].op = "async_turn_on" /\ frame[c].params.brightness = 1
    /\ pc[c] = "idle"
    /\ e.kind = "night" /\ e.pre.brightness = 50
    /\ brightnesses = <<25, 50, 75, 100>>
    /\ Cardinality(Attempts(c, "night")) = 1
    /\ brightness = 1 /\ power = STATE_ON

\* task c starts a turn-on without targets in this step
StartsPlainTurnOn(c) ==
  /\ pc[c] = "idle" /\ frame'[c] # frame[c]
  /\ frame'[c].op = "async_turn_on" /\ frame'[c].via = "async_turn_on"
  /\ frame'[c].params = NoParams

\* C14: a turn-on with no colour temperature and no brightness target that
\* finds the assumed power ON: with on_by_remote false it requests POWER_ON
\* once, the transport is invoked exactly once for it and the power stays ON;
\* with on_by_remote true it returns at once, nothing is requested or
\* transmitted, and on_by_remote stays true (the power stays ON).
C14_FallbackPowerOn ==
  /\ [][\A c \in Callers :
          (StartsPlainTurnOn(c) /\ power = STATE_ON) =>
            IF on_by_remote
            THEN /\ pc'[c] = "idle" /\ frame'[c].trace = <<>>
                 /\ \A i \in DOMAIN sent' : sent'[i].task # c
                 /\ on_by_remote' /\ power' = STATE_ON
            ELSE /\ pc'[c] = "send" /\ power' = STATE_ON
                 /\ Len(frame'[c].trace) = 1
                 /\ frame'[c].trace[1].kind = "fallback"
                 /\ frame'[c].trace[1].cmd = CMD_POWER_ON
                 /\ frame'[c].trace[1].count = 1]_vars
  /\ [](\A c \in Callers : \A e \in TraceEntries(c) :
          (e.kind = "fallback" /\ e.pre.power = STATE_ON) =>
            /\ power = STATE_ON
            /\ \A i \in DOMAIN sent :
                 sent[i].task = c => sent[i].kind = "fallback" /\ sent[i].cmd = CMD_POWER_ON
            /\ Cardinality(Attempts(c, "fallback")) <= 1
            /\ pc[c] = "idle" => Cardinality(Attempts(c, "fallback")) = 1)

\* C14 witness: a turn-on without targets has returned at once because the
\* light was detected as on while the assumed power was ON.
C14_Witness ==
  \E c \in Callers :
    /\ frame[c].op = "async_turn_on" /\ frame[c].via = "async_turn_on"
    /\ frame[c].params = NoParams /\ frame[c].trace = <<>>
    /\ pc[c] = "idle" /\ on_by_remote /\ power = STATE_ON
    /\ \A i \in DOMAIN sent : sent[i].task # c

\* task c starts a turn-off in this step (called directly or through toggle)
StartsTurnOff(c) ==
  /\ pc[c] = "idle" /\ frame'[c] # frame[c] /\ frame'[c].op = "async_turn_off"

\* C15: a turn-off, in whatever state it is called, sets the assumed power
\* OFF, leaves the brightness and the colour temperature as they are and
\* requests POWER_OFF once; with POWER_OFF in the command mapping the
\* transport is invoked for it, exactly once when the call has returned, and
\* for nothing else.
C15_TurnOff ==
  /\ [][\A c \in Callers :
          StartsTurnOff(c) =>
            /\ power' = STATE_OFF
            /\ brightness' = brightness /\ colortemp' = colortemp
            /\ Len(frame'[c].trace) = 1
            /\ frame'[c].trace[1].kind = "off"
            /\ frame'[c].trace[1].cmd = CMD_POWER_OFF
            /\ frame'[c].trace[1].count = 1
            /\ CMD_POWER_OFF \in commands => pc'[c] \in {"send", "acquire"}]_vars
  /\ [](\A c \in Callers : \A e \in TraceEntries(c) :
          e.kind = "off" =>
            /\ e.post.power = STATE_OFF
            /\ e.post.brightness = e.pre.brightness
            /\ e.post.colortemp = e.pre.colortemp
            /\ \A i \in DOMAIN sent :
                 sent[i].task = c => sent[i].kind = "off" /\ sent[i].cmd = CMD_POWER_OFF
            /\ Cardinality(Attempts(c, "off")) <= 1
            /\ (pc[c] = "idle" /\ CMD_POWER_OFF \in commands) =>
                 Cardinality(Attempts(c, "off")) = 1)

\* C15 witness: a turn-off has returned that was called with the assumed
\* power OFF and the light detected as on.
C15_Witness ==
  \E c \in Callers : \E e \in TraceEntries(c) :
    /\ e.kind = "off" /\ e.pre.power = STATE_OFF /\ e.pre.on_by_remote
    /\ pc[c] = "idle" /\ power = STATE_OFF
    /\ Cardinality(Attempts(c, "off")) = 1

\* C16: in every reachable state at most one power sensor check is
\* outstanding, it is the one the cancel handle refers to, and the expected
\* state is set exactly when a check is outstanding.
C16_OneTimer ==
  /\ Cardinality(timers) <= 1
  /\ timers = IF power_sensor_check_cancel # 0 THEN {power_sensor_check_cancel} ELSE {}
  /\ (power_sensor_check_expect # None) <=> (timers # {})

\* C16 witness: a check expecting OFF is outstanding, armed after an earlier
\* check has fired (which is what assigns self._state).
C16_Witness ==
  /\ Cardinality(timers) = 1
  /\ power_sensor_check_expect = STATE_OFF
  /\ state = STATE_ON

\* C17: the lock is held exactly while a send_command is inside its burst and
\* the tasks queued on it are the ones waiting in send_command, so whenever
\* no send_command is in progress the lock is free, also after attempts that
\* raised; and no exception reaches the caller: a service call that is not
\* suspended in send_command has run all its sections.
C17_LockReleased ==
  /\ temp_lock.locked <=> (\E c \in Callers : pc[c] = "send")
  /\ \A c \in Callers :
       pc[c] = "acquire" <=> (\E i \in DOMAIN temp_lock.waiters : temp_lock.waiters[i] = c)
  /\ (\A c \in Callers : pc[c] = "idle") => lock_free(temp_lock)
  /\ \A c \in Callers :
       (pc[c] = "idle" /\ frame[c].op # "") =>
         frame[c].section = LastSection(frame[c].op) + 1

\* C17 witness: no send_command is in progress, an attempt of one call raised
\* and a burst of another call reached the transport after it.
C17_Witness ==
  /\ \A c \in Callers : pc[c] = "idle"
  /\ \E i, j \in DOMAIN sent :
       i < j /\ ~sent[i].ok /\ sent[j].task # sent[i].task /\ sent[j].ok

\* the turn-on of task c found the power ON and the light not detected as on,
\* had a colour temperature or brightness target, and every target it had
\* was at the current index (no step command requested, no other command)
ZeroStepTurnOn(c) ==
  /\ frame[c].op = "async_turn_on"
  /\ \E e \in TraceEntries(c) : e.kind \in {"colortemp", "brightness"}
  /\ \A e \in TraceEntries(c) :
       /\ e.kind \in {"colortemp", "brightness", "fallback"}
       /\ e.kind \in {"colortemp", "brightness"} => (e.new = e.old /\ ~e.requested)
       /\ e.pre.power = STATE_ON /\ ~e.pre.on_by_remote

\* C18: a turn-on with a colour temperature or brightness target whose step
\* count is 0, called with the assumed power ON and on_by_remote false, takes
\* the fallback: when it has returned it has requested POWER_ON once and, with
\* POWER_ON in the command mapping, the transport was invoked once for it.
C18_ZeroStepsFallback ==
  \A c \in Callers :
    (ZeroStepTurnOn(c) /\ pc[c] = "idle") =>
      /\ \E e \in TraceEntries(c) :
           e.kind = "fallback" /\ e.cmd = CMD_POWER_ON /\ e.count = 1
      /\ CMD_POWER_ON \in commands => Cardinality(Attempts(c, "fallback")) = 1

\* the turn-on of task c returns in this step
TurnOnReturns(c) ==
  /\ frame'[c].op = "async_turn_on" /\ pc'[c] = "idle"
  /\ (pc[c] # "idle" \/ frame'[c] # frame[c])

\* C19: when a turn-on returns, is_on is true, whatever the power,
\* on_by_remote and the targets it was called with.  (A sensor event between
\* the call and the return never sets the power OFF, so it cannot be what
\* makes is_on false at the return.)
C19_OnAfterTurnOn ==
  [][\A c \in Callers : TurnOnReturns(c) => is_on']_vars

\* Burst order: every device, two or more turn-on calls with targets, each
\* task making one call while the earlier ones are still running,
\* transmissions that succeed.
InitOrder == Init

NextOrder ==
  \/ \E last_state \in {NoLastState, [NoLastState EXCEPT !.state = STATE_OFF]} :
       async_added_to_hass(last_state)
  \/ \E c \in Callers : \E b \in BrightnessTargets \ {1, 70}, k \in ColorTempTargets :
       /\ async_turn_on(c, [NoParams EXCEPT !.brightness = b, !.color_temp_kelvin = k])
       /\ frame[c] = NoFrame
       /\ b # NoValue \/ k # NoValue
  \/ \E c \in Callers : lock_acquired(c)
  \/ \E c \in Callers : controller_send(c, TRUE)

SpecOrder == InitOrder /\ [][NextOrder]_vars

\* The light itself: its position on each scale (0-based), which one press of a
\* step command moves by one and which stops at the ends of the scale.
Min(x, y) == IF x < y THEN x ELSE y
Max(x, y) == IF x < y THEN y ELSE x

Press(pos, cmd) ==
  CASE cmd = CMD_BRIGHTNESS_INCREASE -> [pos EXCEPT !.b = Min(@ + 1, Len(brightnesses) - 1)]
    [] cmd = CMD_BRIGHTNESS_DECREASE -> [pos EXCEPT !.b = Max(@ - 1, 0)]
    [] cmd = CMD_COLORMODE_COLDER -> [pos EXCEPT !.k = Min(@ + 1, Len(colortemps) - 1)]
    [] cmd = CMD_COLORMODE_WARMER -> [pos EXCEPT !.k = Max(@ - 1, 0)]
    [] OTHER -> pos

Repeat(cmd, n) == [i \in 1..n |-> cmd]

\* the presses still to come from the burst being sent and from the bursts
\* queued on the lock, in the order of the queue
InBurst ==
  IF \E c \in Callers : pc[c] = "send"
  THEN LET c == CHOOSE d \in Callers : pc[d] = "send"
       IN Repeat(frame[c].req.cmd, frame[c].left)
  ELSE <<>>

RECURSIVE Queued(_)
Queued(ws) ==
  IF ws = <<>> THEN <<>>
  ELSE Repeat(frame[Head(ws)].req.cmd, frame[Head(ws)].req.count) \o Queued(Tail(ws))

\* the presses that have reached the transport, then the ones still to come
Moves == [i \in DOMAIN sent |-> sent[i].cmd] \o InBurst \o Queued(temp_lock.waiters)

\* the position of a light after the first n presses that was in step with
\* the state the entity is constructed with (the top of both scales)
RECURSIVE FixtureAfter(_)
FixtureAfter(n) ==
  IF n = 0 THEN [b |-> Len(brightnesses) - 1, k |-> Len(colortemps) - 1]
  ELSE CHOOSE q \in { Press(p, Moves[n]) : p \in {FixtureAfter(n - 1)} } : TRUE

\* The bursts reach the transport in the order in which their positions were
\* committed: on the device whose scales the repeat counts fit, the tracked
\* brightness and colour temperature are in every state the position of the
\* light after the presses transmitted so far followed by the pending bursts
\* in lock order.
BurstsInLockOrder ==
  FullDevice =>
    \A p \in {FixtureAfter(Len(Moves))} :
      /\ brightness = brightnesses[p.b + 1]
      /\ colortemp = colortemps[p.k + 1]

\* C20: when concurrent turn-on calls with brightness or colour temperature
\* targets have all returned, no transmission having failed, on a device that
\* has the step commands of its scales, the tracked position of each scale is
\* the position that the transmitted bursts, applied in order, leave a light
\* in that started in step with the entity and stops at the ends of its scales.
C20_TrackedFollowsBursts ==
  (/\ \A c \in Callers : pc[c] = "idle" /\ frame[c].op = "async_turn_on"
   /\ {CMD_BRIGHTNESS_INCREASE, CMD_BRIGHTNESS_DECREASE} \subseteq commands) =>
    \A p \in {FixtureAfter(Len(Moves))} :
      /\ brightnesses # <<>> => brightness = brightnesses[p.b + 1]
      /\ support_color_mode = "color_temp" => colortemp = colortemps[p.k + 1]

====
